---- MODULE Spec2Model ----
(***************************************************************************)
(* Model of the LifeComposition layout computation (the `composition`      *)
(* memo of the LifeComposition component and the helpers it calls) and of  *)
(* the tables in lib/design-system it reads.                               *)
(*                                                                         *)
(* Numbers: the source computes scores in IEEE doubles.  The model uses    *)
(* exact rationals (numerator / denominator pairs of integers); the        *)
(* intensities 0.2 .. 1.0 are kept in tenths and the weights in the        *)
(* reduced form given at ScoreNum.  Math.floor of an exact quotient and of  *)
(* its double differ only where the double falls just short of an integer;*)
(* for the task kinds of Spec the two agree in every reachable layout.     *)
(***************************************************************************)
EXTENDS Integers, Sequences, FiniteSets, TLC

\* --------------------------------------------------------------- the state
VARIABLES
  tasks,          \* domainGroups: the tasks of each life domain
  viewMode,       \* the viewMode prop
  pc,             \* "idle", or "placing" inside the placement loop
  domainMetrics,  \* the sorted metrics of the running composition
  idx,            \* index into domainMetrics of the next loop iteration
  grid,           \* the occupancy grid of the running composition
  placedBlocks,   \* the blocks placed so far; the returned list once pc = "idle"
  currentRow,     \* the row bound handed to findNextPosition
  memo,           \* an earlier invocation's inputs and result (DetSpec only)
  sizing,         \* one domain's factors and dimensions (SizeSpec only)
  navigation      \* the NavigationProvider state (NavSpec and ClickSpec only)

vars == <<tasks, viewMode, pc, domainMetrics, idx, grid, placedBlocks, currentRow,
          memo, sizing, navigation>>

layoutVars == <<tasks, viewMode, pc, domainMetrics, idx, grid, placedBlocks, currentRow>>

\* ------------------------------------------------------------------ bounds
\* Tasks in all domains together (Spec).
MaxTasks == 3
\* Tasks in all domains together while an invocation is remembered (DetSpec).
MaxDetTasks == 1
\* Task count, time step in minutes and number of steps of the size mapper's
\* inputs (SizeSpec).
MaxSizeTasks == 2
TimeStep == 30
MaxTimeSteps == 40
\* Columns and rows of a configured canvas, and the cell counts asked of it
\* (ConfigSpec).
MaxCanvasSide == 5
MaxCanvasCells == 10
\* Task durations of the scenarios, in minutes (ScenarioSpec).
ScenarioStep == 15
MaxScenarioSteps == 24
\* Origins of the block on the grid and of the candidates, and the sides of
\* the candidates, of the calls of hasEnoughSpacing (SpacingSpec).
MaxOwnerOrigin == 4
MaxProbeOrigin == 6
MaxProbeSide == 3
\* The longest breadcrumb list selectTask is called on (NavSpec) and a task
\* click may produce (ClickSpec).
MaxCrumbs == 4
MaxClickCrumbs == 6

\* ------------------------------------------------------- design-system data
\* Object.keys(LIFE_DOMAINS): the insertion order of domainGroups.
DomainOrder == <<"purple", "blue", "yellow", "green", "orange", "red">>

LifeDomains == {DomainOrder[i] : i \in 1..Len(DomainOrder)}

ViewModes == {"day", "week", "month"}

VIEW_CONFIGURATIONS ==
  [day   |-> [gridColumns |-> 16, gridRows |-> 12],
   week  |-> [gridColumns |-> 20, gridRows |-> 16],
   month |-> [gridColumns |-> 24, gridRows |-> 20]]

GRID == [columns |-> 24, rows |-> 24]

\* getEmotionalIntensity, in tenths; a missing stress level counts 0.5.
getEmotionalIntensity(stressLevel) ==
  CASE stressLevel = "overwhelming" -> 10
    [] stressLevel = "high"         -> 8
    [] stressLevel = "medium"       -> 5
    [] stressLevel = "low"          -> 2
    [] OTHER                        -> 5

stressValue(task) ==
  IF task.stressLevel # "none" THEN getEmotionalIntensity(task.stressLevel) ELSE 5

\* ------------------------------------------------------------ small helpers
Min(a, b) == IF a < b THEN a ELSE b
Max(a, b) == IF a > b THEN a ELSE b
Abs(a) == IF a < 0 THEN 0 - a ELSE a

\* domainTasks.reduce((sum, task) => sum + (task.estimatedTime || 0), 0)
RECURSIVE SumEstimatedTime(_)
SumEstimatedTime(s) ==
  IF s = <<>> THEN 0 ELSE Head(s).estimatedTime + SumEstimatedTime(Tail(s))

\* domainTasks.reduce((sum, task) => sum + stressValue, 0), in tenths
RECURSIVE SumStress(_)
SumStress(s) == IF s = <<>> THEN 0 ELSE stressValue(Head(s)) + SumStress(Tail(s))

\* domainTasks.filter(task => task.priority === 'high' || task.lifeDomain === 'red').length
RECURSIVE CountUrgent(_, _)
CountUrgent(domain, s) ==
  IF s = <<>> THEN 0
  ELSE (IF Head(s).priority = "high" \/ domain = "red" THEN 1 ELSE 0)
       + CountUrgent(domain, Tail(s))

\* Math.floor(Math.sqrt(num / den)) for num >= 0, den > 0.
RECURSIVE FloorSqrtFrom(_, _, _)
FloorSqrtFrom(w, num, den) ==
  IF (w + 1) * (w + 1) * den <= num THEN FloorSqrtFrom(w + 1, num, den) ELSE w

FloorSqrt(num, den) == FloorSqrtFrom(0, num, den)

\* ------------------------------------------------------------- gridDimensions
\* gridDimensions read from GRID instead of the view configuration.
gridDimensionsOfGRID(mode) ==
  [columns |-> GRID.columns, rows |-> GRID.rows]

gridDimensions(mode) ==
  [columns |-> VIEW_CONFIGURATIONS[mode].gridColumns,
   rows    |-> VIEW_CONFIGURATIONS[mode].gridRows]

\* ---------------------------------------------------------------- factors
\* ModuleSizeFactors of one domain; stressSum is the sum of the intensities
\* in tenths (stressLevel and emotionalWeight are both stressSum / taskCount).
Factors(domain, domainTasks) ==
  [taskCount          |-> Len(domainTasks),
   totalEstimatedTime |-> SumEstimatedTime(domainTasks),
   stressSum          |-> SumStress(domainTasks),
   urgentTasks        |-> CountUrgent(domain, domainTasks)]

\* importanceScore / maxPossibleScore as the fraction ScoreNum / ScoreDen:
\*   taskCount/10 * 0.25 + time/480 * 0.25 + stress * 0.2 + urgent/5 * 0.2
\*     + emotional * 0.1
\* = taskCount/40 + time/1920 + urgent/25 + 3 * stressSum / (100 * taskCount)
\* over the common denominator 9600 * taskCount.
ScoreNum(f) ==
    240 * f.taskCount * f.taskCount
  + 5 * f.totalEstimatedTime * f.taskCount
  + 384 * f.urgentTasks * f.taskCount
  + 288 * f.stressSum

ScoreDen(f) == 9600 * f.taskCount

\* ------------------------------------------------------------- size mapper
domainImportance ==
  [purple |-> 12, blue |-> 11, yellow |-> 11, green |-> 10, orange |-> 9, red |-> 13]

targetCells(f, mode) ==
  LET gd == gridDimensions(mode)
      totalGridCells == gd.columns * gd.rows
  IN  (totalGridCells * ScoreNum(f)) \div ScoreDen(f)

\* The cell count with one floor over the whole product.
adjustedTargetCellsSingleFloor(domain, f, mode) ==
  LET gd == gridDimensions(mode)
      totalGridCells == gd.columns * gd.rows
  IN  (totalGridCells * ScoreNum(f) * domainImportance[domain])
        \div (ScoreDen(f) * 10)

adjustedTargetCells(domain, f, mode) ==
  (targetCells(f, mode) * domainImportance[domain]) \div 10

\* The loop "while (width * height < 4 && width < columns - 2 && height < rows - 2)".
RECURSIVE EnsureMinimum(_, _, _)
EnsureMinimum(width, height, gd) ==
  IF width * height < 4 /\ width < gd.columns - 2 /\ height < gd.rows - 2
  THEN IF width < height THEN EnsureMinimum(width + 1, height, gd)
                         ELSE EnsureMinimum(width, height + 1, gd)
  ELSE [width |-> width, height |-> height]

\* The size mapper without the upper clamps Math.min(columns - 2, ...) and
\* Math.min(rows - 2, ...).
DimensionsForUnclamped(cells, gd) ==
  LET width  == Max(2, FloorSqrt(12 * cells, 10))
      height == Max(2, cells \div width)
  IN  EnsureMinimum(width, height, gd)

\* aspectRatio = 1.2: Math.floor(Math.sqrt(cells * 1.2)) = FloorSqrt(12 * cells, 10).
DimensionsFor(cells, gd) ==
  LET width  == Max(2, Min(gd.columns - 2, FloorSqrt(12 * cells, 10)))
      height == Max(2, Min(gd.rows - 2, cells \div width))
  IN  EnsureMinimum(width, height, gd)

Dimensions(domain, f, mode) ==
  DimensionsFor(adjustedTargetCells(domain, f, mode), gridDimensions(mode))

\* ------------------------------------------------------------------- grid
NoDomain == "none"

\* initializeGrid(width, height): every cell { occupied: false }.
initializeGrid(width, height) ==
  [cells  |-> [r \in 0..(height - 1) |->
                [c \in 0..(width - 1) |-> [occupied |-> FALSE, domain |-> NoDomain]]],
   width  |-> width,
   height |-> height]

\* grid.cells[r][c]; outside the grid the read yields no cell (JavaScript
\* throws a TypeError on the property access that follows).
CellAt(g, r, c) ==
  IF r >= 0 /\ r < g.height /\ c >= 0 /\ c < g.width
  THEN g.cells[r][c]
  ELSE [occupied |-> FALSE, domain |-> NoDomain]

\* The cells placeBlock writes.
PlaceWrites(startRow, startCol, width, height) ==
  [r1 |-> startRow, r2 |-> startRow + height - 1,
   c1 |-> startCol, c2 |-> startCol + width - 1]

\* placeBlock whose loops run to startRow + height and startCol + width
\* inclusive.
placeBlockInclusive(g, domain, startRow, startCol, width, height) ==
  [g EXCEPT !.cells =
     [r \in DOMAIN g.cells |->
       [c \in DOMAIN g.cells[r] |->
         IF /\ r >= startRow /\ r <= startRow + height
            /\ c >= startCol /\ c <= startCol + width
         THEN [occupied |-> TRUE, domain |-> domain]
         ELSE g.cells[r][c]]]]

\* placeBlock that sets the domain of the cells but leaves occupied false.
placeBlockUnmarked(g, domain, startRow, startCol, width, height) ==
  [g EXCEPT !.cells =
     [r \in DOMAIN g.cells |->
       [c \in DOMAIN g.cells[r] |->
         IF /\ r >= startRow /\ r < startRow + height
            /\ c >= startCol /\ c < startCol + width
         THEN [occupied |-> FALSE, domain |-> domain]
         ELSE g.cells[r][c]]]]

placeBlock(g, domain, startRow, startCol, width, height) ==
  [g EXCEPT !.cells =
     [r \in DOMAIN g.cells |->
       [c \in DOMAIN g.cells[r] |->
         IF /\ r >= startRow /\ r < startRow + height
            /\ c >= startCol /\ c < startCol + width
         THEN [occupied |-> TRUE, domain |-> domain]
         ELSE g.cells[r][c]]]]

\* An empty rectangle of cells.
NoCells == [r1 |-> 0, r2 |-> -1, c1 |-> 0, c2 |-> -1]

\* The rectangle of cells canPlaceBlock indexes: none when the bounds test
\* returns early, else (at most) the footprint.
CanPlaceReads(g, startRow, startCol, width, height) ==
  IF \/ startRow < 0 \/ startCol < 0
     \/ startRow + height > g.height
     \/ startCol + width > g.width
  THEN NoCells
  ELSE [r1 |-> startRow, r2 |-> startRow + height - 1,
        c1 |-> startCol, c2 |-> startCol + width - 1]

\* canPlaceBlock without the scan of the footprint for occupied cells.
canPlaceBlockBoundsOnly(g, startRow, startCol, width, height) ==
  ~(\/ startRow < 0 \/ startCol < 0
    \/ startRow + height > g.height
    \/ startCol + width > g.width)

canPlaceBlock(g, startRow, startCol, width, height) ==
  IF \/ startRow < 0 \/ startCol < 0
     \/ startRow + height > g.height
     \/ startCol + width > g.width
  THEN FALSE
  ELSE \A row \in startRow..(startRow + height - 1) :
         \A col \in startCol..(startCol + width - 1) :
           ~CellAt(g, row, col).occupied

\* ------------------------------------------------------- spacing validator
domainSpacing ==
  [default |-> [minRowGap |-> 2, minColGap |-> 2],
   purple  |-> [minRowGap |-> 2, minColGap |-> 2],
   blue    |-> [minRowGap |-> 2, minColGap |-> 2],
   yellow  |-> [minRowGap |-> 2, minColGap |-> 2],
   green   |-> [minRowGap |-> 2, minColGap |-> 2],
   orange  |-> [minRowGap |-> 2, minColGap |-> 2],
   red     |-> [minRowGap |-> 2, minColGap |-> 2]]

SpacingOf(domain) ==
  IF domain \in DOMAIN domainSpacing THEN domainSpacing[domain]
  ELSE domainSpacing["default"]

\* The conflict groups of hasEnoughSpacing and the group of a domain
\* (NoDomain when it is in none).
conflictGroups == [workGroup |-> {"purple"}, peopleGroup |-> {"yellow"}]

GroupOf(domain) ==
  IF domain \in conflictGroups.workGroup THEN "workGroup"
  ELSE IF domain \in conflictGroups.peopleGroup THEN "peopleGroup"
  ELSE NoDomain

\* hasEnoughSpacing with neither the clamps on the loop bounds nor the guard.
SpacingReadsUnclamped(g, row, col, width, height, domain) ==
  LET spacing == SpacingOf(domain)
  IN  [r1 |-> row - spacing.minRowGap, r2 |-> row + height + spacing.minRowGap,
       c1 |-> col - spacing.minColGap, c2 |-> col + width + spacing.minColGap]

\* The rectangle of cells hasEnoughSpacing indexes: the two loops run over
\* the footprint widened by the gaps and clamped to the grid, and the guard
\* inside them lets only cells of the grid through.
SpacingReads(g, row, col, width, height, domain) ==
  LET spacing == SpacingOf(domain)
      rFirst  == Max(0, row - spacing.minRowGap)
      rLast   == Min(g.height - 1, row + height + spacing.minRowGap)
      cFirst  == Max(0, col - spacing.minColGap)
      cLast   == Min(g.width - 1, col + width + spacing.minColGap)
  IN  [r1 |-> Max(rFirst, 0), r2 |-> Min(rLast, g.height - 1),
       c1 |-> Max(cFirst, 0), c2 |-> Min(cLast, g.width - 1)]

\* hasEnoughSpacing that keeps the gap to cells of the same domain only.
hasEnoughSpacingSameDomainOnly(g, row, col, width, height, domain) ==
  LET spacing == SpacingOf(domain)
      region  == SpacingReads(g, row, col, width, height, domain)
  IN  \A r \in region.r1..region.r2 :
        \A c \in region.c1..region.c2 :
          LET occupiedCell == CellAt(g, r, c)
              rowDistance  == Abs(r - row)
              colDistance  == Abs(c - col)
          IN  (occupiedCell.occupied /\ occupiedCell.domain = domain) =>
                ~(rowDistance < spacing.minRowGap \/ colDistance < spacing.minColGap)

\* hasEnoughSpacing without the test of the groups: every occupied cell
\* closer than the gap rejects.
hasEnoughSpacingAnyOwner(g, row, col, width, height, domain) ==
  LET spacing == SpacingOf(domain)
      region  == SpacingReads(g, row, col, width, height, domain)
  IN  \A r \in region.r1..region.r2 :
        \A c \in region.c1..region.c2 :
          LET occupiedCell == CellAt(g, r, c)
              rowDistance  == Abs(r - row)
              colDistance  == Abs(c - col)
          IN  (occupiedCell.occupied /\ occupiedCell.domain # NoDomain) =>
                ~(rowDistance < spacing.minRowGap \/ colDistance < spacing.minColGap)

hasEnoughSpacing(g, row, col, width, height, domain) ==
  LET spacing      == SpacingOf(domain)
      currentGroup == GroupOf(domain)
      region       == SpacingReads(g, row, col, width, height, domain)
  IN  \A r \in region.r1..region.r2 :
        \A c \in region.c1..region.c2 :
          LET occupiedCell  == CellAt(g, r, c)
              occupiedGroup == GroupOf(occupiedCell.domain)
              rowDistance   == Abs(r - row)
              colDistance   == Abs(c - col)
          IN  (occupiedCell.occupied /\ occupiedCell.domain # NoDomain) =>
                ((\/ occupiedCell.domain = domain
                  \/ /\ currentGroup # NoDomain
                     /\ occupiedGroup # NoDomain
                     /\ currentGroup # occupiedGroup)
                 => ~(rowDistance < spacing.minRowGap \/ colDistance < spacing.minColGap))

\* ---------------------------------------------------------- grid allocator
\* The acceptance test without the call of hasEnoughSpacing.
AcceptsCanPlaceOnly(g, row, col, width, height, domain) ==
  canPlaceBlock(g, row, col, width, height)

\* The condition every phase of findNextPosition tests.
Accepts(g, row, col, width, height, domain) ==
  /\ canPlaceBlock(g, row, col, width, height)
  /\ hasEnoughSpacing(g, row, col, width, height, domain)

\* The result of a search that found nothing (null).
NoPosition == [row |-> -1, col |-> -1, phase |-> "none"]

searchPatterns(g) ==
  LET midRow == g.height \div 2
      midCol == g.width \div 2
  IN  [purple |-> [startRow |-> 0, startCol |-> 0, direction |-> "row",
                   maxAttempts |-> (g.width * 4) \div 10],
       blue   |-> [startRow |-> 0, startCol |-> midCol, direction |-> "row",
                   maxAttempts |-> (g.width * 4) \div 10],
       yellow |-> [startRow |-> midRow, startCol |-> 0, direction |-> "row",
                   maxAttempts |-> (g.width * 4) \div 10],
       green  |-> [startRow |-> midRow, startCol |-> midCol, direction |-> "row",
                   maxAttempts |-> (g.width * 4) \div 10],
       orange |-> [startRow |-> 0, startCol |-> 0, direction |-> "col",
                   maxAttempts |-> (g.height * 4) \div 10],
       red    |-> [startRow |-> 0, startCol |-> 0, direction |-> "row",
                   maxAttempts |-> (g.width * 3) \div 10]]

\* The one element of a singleton set: binds a value that is computed once.
TheOne(S) == CHOOSE x \in S : TRUE

\* for (col = col; col <= cEnd; col++) if (accepts) return: the first accepted
\* column of a row, or -1.
RECURSIVE FirstColInRow(_, _, _, _, _, _, _)
FirstColInRow(g, width, height, domain, row, col, cEnd) ==
  IF col > cEnd THEN -1
  ELSE IF Accepts(g, row, col, width, height, domain) THEN col
  ELSE FirstColInRow(g, width, height, domain, row, col + 1, cEnd)

RECURSIVE FirstRowInCol(_, _, _, _, _, _, _)
FirstRowInCol(g, width, height, domain, col, row, rEnd) ==
  IF row > rEnd THEN -1
  ELSE IF Accepts(g, row, col, width, height, domain) THEN row
  ELSE FirstRowInCol(g, width, height, domain, col, row + 1, rEnd)

\* Rows outer, columns inner: the first accepted origin, or NoPosition.
RECURSIVE ScanByRow(_, _, _, _, _, _, _, _, _)
ScanByRow(g, width, height, domain, row, rEnd, cStart, cEnd, phase) ==
  IF row > rEnd THEN NoPosition
  ELSE TheOne({IF col >= 0 THEN [row |-> row, col |-> col, phase |-> phase]
               ELSE ScanByRow(g, width, height, domain, row + 1, rEnd, cStart, cEnd,
                              phase) :
                 col \in {FirstColInRow(g, width, height, domain, row, cStart, cEnd)}})

\* Columns outer, rows inner.
RECURSIVE ScanByCol(_, _, _, _, _, _, _, _, _)
ScanByCol(g, width, height, domain, col, cEnd, rStart, rEnd, phase) ==
  IF col > cEnd THEN NoPosition
  ELSE TheOne({IF row >= 0 THEN [row |-> row, col |-> col, phase |-> phase]
               ELSE ScanByCol(g, width, height, domain, col + 1, cEnd, rStart, rEnd,
                              phase) :
                 row \in {FirstRowInCol(g, width, height, domain, col, rStart, rEnd)}})

\* The preferred pattern with maxAttempts bounding only the inner loop, the
\* outer loop running to the grid edge.
PreferredRangeScannedAxisOnly(g, width, height, domain) ==
  LET pattern == searchPatterns(g)[domain]
  IN  IF pattern.direction = "row"
      THEN [r1 |-> pattern.startRow,
            r2 |-> g.height - height,
            c1 |-> pattern.startCol,
            c2 |-> Min(g.width - width, pattern.startCol + pattern.maxAttempts)]
      ELSE [r1 |-> pattern.startRow,
            r2 |-> Min(g.height - height, pattern.startRow + pattern.maxAttempts),
            c1 |-> pattern.startCol,
            c2 |-> g.width - width]

\* The origins a phase's two loops run over: rows r1..r2, columns c1..c2.
\* Phase 1: the preferred pattern of the domain.
PreferredRange(g, width, height, domain) ==
  LET pattern == searchPatterns(g)[domain]
  IN  [r1 |-> pattern.startRow,
       r2 |-> Min(g.height - height, pattern.startRow + pattern.maxAttempts),
       c1 |-> pattern.startCol,
       c2 |-> Min(g.width - width, pattern.startCol + pattern.maxAttempts)]

\* The priority zone as "the first half of the grid": 50% x 50%.
searchAreaFirstHalf(g) ==
  [startRow |-> 0, endRow |-> (g.height * 5) \div 10,
   startCol |-> 0, endCol |-> (g.width * 5) \div 10]

\* Phase 2: the top-left 70% x 70% of the grid.
searchArea(g) ==
  [startRow |-> 0, endRow |-> (g.height * 7) \div 10,
   startCol |-> 0, endCol |-> (g.width * 7) \div 10]

AreaRange(g, width, height) ==
  LET area == searchArea(g)
  IN  [r1 |-> area.startRow, r2 |-> area.endRow - height,
       c1 |-> area.startCol, c2 |-> area.endCol - width]

\* Phase 3: the entire grid.
GridRange(g, width, height) ==
  [r1 |-> 0, r2 |-> g.height - height, c1 |-> 0, c2 |-> g.width - width]

SearchPreferred(g, width, height, domain) ==
  TheOne({IF searchPatterns(g)[domain].direction = "row"
          THEN ScanByRow(g, width, height, domain, range.r1, range.r2,
                         range.c1, range.c2, "preferred")
          ELSE ScanByCol(g, width, height, domain, range.c1, range.c2,
                         range.r1, range.r2, "preferred") :
            range \in {PreferredRange(g, width, height, domain)}})

SearchArea(g, width, height, domain) ==
  TheOne({ScanByRow(g, width, height, domain, range.r1, range.r2,
                    range.c1, range.c2, "zone") :
            range \in {AreaRange(g, width, height)}})

SearchGrid(g, width, height, domain) ==
  TheOne({ScanByRow(g, width, height, domain, range.r1, range.r2,
                    range.c1, range.c2, "full") :
            range \in {GridRange(g, width, height)}})

\* findNextPosition that returns null when the preferred pattern finds nothing.
findNextPositionPreferredOnly(g, width, height, domain, startRow) ==
  SearchPreferred(g, width, height, domain)

\* findNextPosition that scans the priority zone before the preferred pattern.
findNextPositionZoneFirst(g, width, height, domain, startRow) ==
  TheOne({IF p1 # NoPosition THEN p1
          ELSE TheOne({IF p2 # NoPosition THEN p2
                       ELSE SearchGrid(g, width, height, domain) :
                         p2 \in {SearchPreferred(g, width, height, domain)}}) :
            p1 \in {SearchArea(g, width, height, domain)}})

\* findNextPosition that gives up after the priority zone.
findNextPositionTwoPhases(g, width, height, domain, startRow) ==
  TheOne({IF p1 # NoPosition THEN p1
          ELSE SearchArea(g, width, height, domain) :
            p1 \in {SearchPreferred(g, width, height, domain)}})

\* findNextPosition: the three phases in turn, each only when the one before
\* found nothing.  startRow is a parameter the body never reads.
findNextPosition(g, width, height, domain, startRow) ==
  TheOne({IF p1 # NoPosition THEN p1
          ELSE TheOne({IF p2 # NoPosition THEN p2
                       ELSE SearchGrid(g, width, height, domain) :
                         p2 \in {SearchArea(g, width, height, domain)}}) :
            p1 \in {SearchPreferred(g, width, height, domain)}})

\* ------------------------------------------------------ placement orchestrator
domainPriority ==
  [red |-> 1, purple |-> 2, yellow |-> 3, blue |-> 4, green |-> 5, orange |-> 6]

PriorityOf(domain) ==
  IF domain \in DOMAIN domainPriority THEN domainPriority[domain] ELSE 999

\* One entry of domainMetrics as the map callback returns it.
Metrics(domain, domainTasks, mode) ==
  LET factors == Factors(domain, domainTasks)
      dims    == Dimensions(domain, factors, mode)
  IN  [domain     |-> domain,
       tasks      |-> domainTasks,
       factors    |-> factors,
       dimensions |-> dims,
       position   |-> [row |-> 1, column |-> 1, span |-> dims.width]]

\* A map over the tasks instead of the groups: one entry per task, each with
\* the metrics of the task's domain.
RECURSIVE MetricsFromPerTask(_, _, _)
MetricsFromPerTask(i, groups, mode) ==
  IF i > Len(DomainOrder) THEN <<>>
  ELSE LET domain == DomainOrder[i]
           rest   == MetricsFromPerTask(i + 1, groups, mode)
       IN  [k \in 1..Len(groups[domain]) |-> Metrics(domain, groups[domain], mode)]
             \o rest

\* The map without the filter, the mean intensity of no tasks taken as 0:
\* a domain without tasks gets the score 0 and so the minimum dimensions.
RECURSIVE MetricsFromZeroGuard(_, _, _)
MetricsFromZeroGuard(i, groups, mode) ==
  IF i > Len(DomainOrder) THEN <<>>
  ELSE LET domain == DomainOrder[i]
           rest   == MetricsFromZeroGuard(i + 1, groups, mode)
           dims   == DimensionsFor(0, gridDimensions(mode))
       IN  IF Len(groups[domain]) > 0
           THEN <<Metrics(domain, groups[domain], mode)>> \o rest
           ELSE <<[domain     |-> domain,
                   tasks      |-> groups[domain],
                   factors    |-> Factors(domain, groups[domain]),
                   dimensions |-> dims,
                   position   |-> [row |-> 1, column |-> 1, span |-> dims.width]]>>
                \o rest

\* Array.from(domainGroups.entries()).filter(tasks.length > 0).map(...)
RECURSIVE MetricsFrom(_, _, _)
MetricsFrom(i, groups, mode) ==
  IF i > Len(DomainOrder) THEN <<>>
  ELSE LET domain == DomainOrder[i]
           rest   == MetricsFrom(i + 1, groups, mode)
       IN  IF Len(groups[domain]) > 0
           THEN <<Metrics(domain, groups[domain], mode)>> \o rest
           ELSE rest

\* A comparator that sorts by score first and by priority only among equal scores.
CompareScoreFirst(a, b) ==
  LET scoreDiff == ScoreNum(b.factors) * a.factors.taskCount
                   - ScoreNum(a.factors) * b.factors.taskCount
  IN  IF scoreDiff # 0 THEN scoreDiff
      ELSE PriorityOf(a.domain) - PriorityOf(b.domain)

\* The sort comparator: negative when a goes first.  bScore - aScore is
\* compared by cross-multiplication (the common factor 9600 cancels).
Compare(a, b) ==
  LET priorityDiff == PriorityOf(a.domain) - PriorityOf(b.domain)
  IN  IF priorityDiff # 0 THEN priorityDiff
      ELSE ScoreNum(b.factors) * a.factors.taskCount
           - ScoreNum(a.factors) * b.factors.taskCount

\* domainMetrics.sort(Compare): a stable insertion sort.
RECURSIVE InsertSorted(_, _)
InsertSorted(m, sorted) ==
  IF sorted = <<>> THEN <<m>>
  ELSE IF Compare(m, Head(sorted)) < 0 THEN <<m>> \o sorted
  ELSE <<Head(sorted)>> \o InsertSorted(m, Tail(sorted))

RECURSIVE SortMetrics(_)
SortMetrics(ms) ==
  IF ms = <<>> THEN <<>>
  ELSE InsertSorted(ms[Len(ms)], SortMetrics(SubSeq(ms, 1, Len(ms) - 1)))

\* The tasks the model feeds in: a short, calm task and a long, pressing one.
TaskKinds ==
  {[estimatedTime |-> 30, priority |-> "medium", stressLevel |-> "low"],
   [estimatedTime |-> 1920, priority |-> "high", stressLevel |-> "high"]}

\* The tasks of the two-invocation runs: the short, calm kind only.
DetTaskKinds == {task \in TaskKinds : task.priority = "medium"}

RECURSIVE TotalTasks(_, _)
TotalTasks(groups, i) ==
  IF i > Len(DomainOrder) THEN 0
  ELSE Len(groups[DomainOrder[i]]) + TotalTasks(groups, i + 1)

\* No invocation is remembered.
NoMemo == [known |-> FALSE]

\* The sizing record of a domain with the given factors, reached from `before`.
SizingOf(domain, mode, factors, before) ==
  [domain     |-> domain,
   mode       |-> mode,
   factors    |-> factors,
   cells      |-> adjustedTargetCells(domain, factors, mode),
   dimensions |-> Dimensions(domain, factors, mode),
   before     |-> before]

NoSizing == [domain |-> NoDomain]

\* A composition that keeps the grid of the invocation before it.
StartCompositionKeepGrid(groups, mode) ==
  /\ domainMetrics' = SortMetrics(MetricsFrom(1, groups, mode))
  /\ grid' = grid
  /\ placedBlocks' = <<>>
  /\ currentRow' = 0
  /\ idx' = 1
  /\ pc' = "placing"

\* The composition memo starts over: metrics, sort, a new grid.
StartComposition(groups, mode) ==
  /\ domainMetrics' = SortMetrics(MetricsFrom(1, groups, mode))
  /\ grid' = initializeGrid(GRID.columns, GRID.rows)
  /\ placedBlocks' = <<>>
  /\ currentRow' = 0
  /\ idx' = 1
  /\ pc' = "placing"

\* A crumb without an id ("id?: string" left out).
NoId == "none"

OverviewCrumb == [level |-> "overview", label |-> "Overview", id |-> NoId]

\* useState<NavigationState>({...}).  error is "none" until an updater
\* throws; the state is not part of the record the code keeps.
InitialNavigation ==
  [zoomLevel   |-> "overview",
   viewMode    |-> "day",
   viewType    |-> "tasks",
   breadcrumbs |-> <<OverviewCrumb>>,
   error       |-> "none"]

\* The first render: no tasks, the composition of nothing.
LayoutInit ==
  /\ tasks = [d \in LifeDomains |-> <<>>]
  /\ viewMode = "day"
  /\ pc = "idle"
  /\ domainMetrics = <<>>
  /\ idx = 1
  /\ grid = initializeGrid(GRID.columns, GRID.rows)
  /\ placedBlocks = <<>>
  /\ currentRow = 0

Init ==
  /\ LayoutInit
  /\ memo = NoMemo
  /\ navigation = InitialNavigation
  /\ sizing = NoSizing

\* The task source delivers one more task: domainGroups changes and the
\* composition memo reruns.
AddTaskUpTo(limit, domain, task) ==
  /\ pc = "idle"
  /\ TotalTasks(tasks, 1) < limit
  /\ tasks' = [tasks EXCEPT ![domain] = Append(@, task)]
  /\ StartComposition(tasks', viewMode)
  /\ UNCHANGED viewMode

AddTask(domain, task) == AddTaskUpTo(MaxTasks, domain, task)

\* The task source drops the last task of a domain.
RemoveTask(domain) ==
  /\ pc = "idle"
  /\ Len(tasks[domain]) > 0
  /\ tasks' = [tasks EXCEPT ![domain] = SubSeq(@, 1, Len(@) - 1)]
  /\ StartComposition(tasks', viewMode)
  /\ UNCHANGED viewMode

\* The viewMode prop changes and the memo reruns.
SetViewMode(mode) ==
  /\ pc = "idle"
  /\ mode # viewMode
  /\ viewMode' = mode
  /\ StartComposition(tasks, mode)
  /\ UNCHANGED tasks

\* A placement loop that breaks at the first domain it cannot place.
PlaceNextStopAtDrop ==
  /\ pc = "placing"
  /\ idx <= Len(domainMetrics)
  /\ LET metrics  == domainMetrics[idx]
         width    == metrics.dimensions.width
         height   == metrics.dimensions.height
     IN  \E position \in {findNextPosition(grid, width, height, metrics.domain,
                                            currentRow)} :
         IF position # NoPosition
         THEN LET placed == [metrics EXCEPT !.position =
                               [row |-> position.row + 1,
                                column |-> position.col + 1,
                                span |-> width]]
              IN  /\ domainMetrics' = [domainMetrics EXCEPT ![idx] = placed]
                  /\ grid' = placeBlock(grid, metrics.domain, position.row,
                                        position.col, width, height)
                  /\ currentRow' = Max(currentRow, position.row + height + 1)
                  /\ placedBlocks' = Append(placedBlocks, placed)
                  /\ idx' = idx + 1
         ELSE /\ UNCHANGED <<domainMetrics, grid, currentRow, placedBlocks>>
              /\ idx' = Len(domainMetrics) + 1
  /\ UNCHANGED <<tasks, viewMode, pc>>

\* A placement loop that emits the 0-indexed origin as the position.
PlaceNextZeroIndexed ==
  /\ pc = "placing"
  /\ idx <= Len(domainMetrics)
  /\ LET metrics  == domainMetrics[idx]
         width    == metrics.dimensions.width
         height   == metrics.dimensions.height
     IN  \E position \in {findNextPosition(grid, width, height, metrics.domain,
                                            currentRow)} :
         IF position # NoPosition
         THEN LET placed == [metrics EXCEPT !.position =
                               [row |-> position.row,
                                column |-> position.col,
                                span |-> width]]
              IN  /\ domainMetrics' = [domainMetrics EXCEPT ![idx] = placed]
                  /\ grid' = placeBlock(grid, metrics.domain, position.row,
                                        position.col, width, height)
                  /\ currentRow' = Max(currentRow, position.row + height + 1)
                  /\ placedBlocks' = Append(placedBlocks, placed)
         ELSE UNCHANGED <<domainMetrics, grid, currentRow, placedBlocks>>
  /\ idx' = idx + 1
  /\ UNCHANGED <<tasks, viewMode, pc>>

\* One iteration of "for (const metrics of domainMetrics)".
PlaceNext ==
  /\ pc = "placing"
  /\ idx <= Len(domainMetrics)
  /\ LET metrics  == domainMetrics[idx]
         width    == metrics.dimensions.width
         height   == metrics.dimensions.height
     IN  \E position \in {findNextPosition(grid, width, height, metrics.domain,
                                            currentRow)} :
         IF position # NoPosition
         THEN LET placed == [metrics EXCEPT !.position =
                               [row |-> position.row + 1,
                                column |-> position.col + 1,
                                span |-> width]]
              IN  /\ domainMetrics' = [domainMetrics EXCEPT ![idx] = placed]
                  /\ grid' = placeBlock(grid, metrics.domain, position.row,
                                        position.col, width, height)
                  /\ currentRow' = Max(currentRow, position.row + height + 1)
                  /\ placedBlocks' = Append(placedBlocks, placed)
         ELSE UNCHANGED <<domainMetrics, grid, currentRow, placedBlocks>>
  /\ idx' = idx + 1
  /\ UNCHANGED <<tasks, viewMode, pc>>

\* "return placedBlocks": the composition memo now holds placedBlocks.
Return ==
  /\ pc = "placing"
  /\ idx > Len(domainMetrics)
  /\ pc' = "idle"
  /\ UNCHANGED <<tasks, viewMode, domainMetrics, idx, grid, placedBlocks, currentRow>>

Next ==
  \/ /\ \E domain \in LifeDomains, task \in TaskKinds : AddTask(domain, task)
     /\ UNCHANGED <<memo, sizing, navigation>>
  \/ /\ \E domain \in LifeDomains : RemoveTask(domain)
     /\ UNCHANGED <<memo, sizing, navigation>>
  \/ /\ \E mode \in ViewModes : SetViewMode(mode)
     /\ UNCHANGED <<memo, sizing, navigation>>
  \/ /\ PlaceNext
     /\ UNCHANGED <<memo, sizing, navigation>>
  \/ /\ Return
     /\ UNCHANGED <<memo, sizing, navigation>>

Spec == Init /\ [][Next]_vars

\* ------------------------------------------------- two invocations compared
\* DetSpec runs the same component and remembers one finished invocation:
\* its inputs, its result, and whether another invocation has run since.
Remember ==
  /\ pc = "idle"
  /\ ~memo.known
  /\ memo' = [known |-> TRUE, tasks |-> tasks, viewMode |-> viewMode,
              placements |-> placedBlocks, between |-> FALSE]
  /\ UNCHANGED <<layoutVars, sizing, navigation>>

\* An invocation with other inputs than the remembered ones starts.
NoteInvocation ==
  memo' = IF memo.known /\ (tasks' # memo.tasks \/ viewMode' # memo.viewMode)
          THEN [memo EXCEPT !.between = TRUE]
          ELSE memo

DetAddTask(domain, task) ==
  AddTaskUpTo(MaxDetTasks, domain, task) /\ NoteInvocation /\ UNCHANGED <<sizing, navigation>>

DetRemoveTask(domain) == RemoveTask(domain) /\ NoteInvocation /\ UNCHANGED <<sizing, navigation>>

DetSetViewMode(mode) == SetViewMode(mode) /\ NoteInvocation /\ UNCHANGED <<sizing, navigation>>

DetPlaceNext == PlaceNext /\ UNCHANGED <<memo, sizing, navigation>>

DetReturn == Return /\ UNCHANGED <<memo, sizing, navigation>>

DetNext ==
  \/ \E domain \in LifeDomains, task \in DetTaskKinds : DetAddTask(domain, task)
  \/ \E domain \in LifeDomains : DetRemoveTask(domain)
  \/ \E mode \in ViewModes : DetSetViewMode(mode)
  \/ DetPlaceNext
  \/ DetReturn
  \/ Remember

DetSpec == Init /\ [][DetNext]_vars

\* ------------------------------------------------- the size mapper by itself
\* SizeSpec applies factors -> score -> cells -> dimensions to one domain
\* whose total estimated time or urgent-task count grows step by step.
Intensities == {getEmotionalIntensity(l) : l \in {"low", "medium", "high", "overwhelming"}}

\* taskCount tasks of one stress level, no time estimate, none of high
\* priority (in red every task counts as urgent).
StartFactors(domain) ==
  {[taskCount          |-> n,
    totalEstimatedTime |-> 0,
    stressSum          |-> n * s,
    urgentTasks        |-> IF domain = "red" THEN n ELSE 0] :
      n \in 1..MaxSizeTasks, s \in Intensities}

SizeInit ==
  /\ LayoutInit
  /\ memo = NoMemo
  /\ navigation = InitialNavigation
  /\ \E domain \in LifeDomains, mode \in ViewModes :
       \E f \in StartFactors(domain) :
         sizing = SizingOf(domain, mode, f, NoSizing)

\* A task's estimatedTime grows by TimeStep minutes.
IncreaseTime ==
  /\ sizing.factors.totalEstimatedTime + TimeStep <= TimeStep * MaxTimeSteps
  /\ sizing' = SizingOf(sizing.domain, sizing.mode,
                        [sizing.factors EXCEPT !.totalEstimatedTime = @ + TimeStep],
                        [sizing EXCEPT !.before = NoSizing])
  /\ UNCHANGED <<layoutVars, memo, navigation>>

\* One more task of the domain has priority 'high'.
IncreaseUrgent ==
  /\ sizing.factors.urgentTasks < sizing.factors.taskCount
  /\ sizing' = SizingOf(sizing.domain, sizing.mode,
                        [sizing.factors EXCEPT !.urgentTasks = @ + 1],
                        [sizing EXCEPT !.before = NoSizing])
  /\ UNCHANGED <<layoutVars, memo, navigation>>

SizeNext == IncreaseTime \/ IncreaseUrgent

SizeSpec == SizeInit /\ [][SizeNext]_vars

\* ------------------------------------------- the size mapper on any canvas
\* ConfigSpec applies the width/height computation to canvases as small as one
\* entry of VIEW_CONFIGURATIONS can make them, for growing cell counts.
Canvases == [columns : 1..MaxCanvasSide, rows : 1..MaxCanvasSide]

CanvasSizing(gd, cells) ==
  [canvas |-> gd, cells |-> cells, dimensions |-> DimensionsFor(cells, gd)]

\* A configured canvas for which nothing has been computed yet.
NoCanvasSizing(gd) ==
  [canvas |-> gd, cells |-> -1, dimensions |-> [width |-> 0, height |-> 0]]

ConfigInit ==
  /\ LayoutInit
  /\ memo = NoMemo
  /\ navigation = InitialNavigation
  /\ \E gd \in Canvases : sizing = NoCanvasSizing(gd)

\* The dimensions for the next adjustedTargetCells, from 0 upwards.
MoreCells ==
  /\ sizing.cells < MaxCanvasCells
  /\ sizing' = CanvasSizing(sizing.canvas, sizing.cells + 1)
  /\ UNCHANGED <<layoutVars, memo, navigation>>

ConfigNext == MoreCells

ConfigSpec == ConfigInit /\ [][ConfigNext]_vars

\* ------------------------------------------------------ the spec's scenarios
\* ScenarioSpec hands the component whole task lists at once: Scenario C (one
\* calm task in each of the six domains) and Scenario A (five tense tasks,
\* three of them of high priority, in one domain and one calm task in another).
ScenarioDurations == {k * ScenarioStep : k \in 0..MaxScenarioSteps}

ScenarioTask(duration, priority, stress) ==
  [estimatedTime |-> duration, priority |-> priority, stressLevel |-> stress]

ScenarioC(duration) ==
  [d \in LifeDomains |-> <<ScenarioTask(duration, "medium", "low")>>]

ScenarioA(X, Y, duration) ==
  [d \in LifeDomains |->
     IF d = X
     THEN <<ScenarioTask(duration, "high", "high"),
            ScenarioTask(duration, "high", "high"),
            ScenarioTask(duration, "high", "high"),
            ScenarioTask(duration, "medium", "high"),
            ScenarioTask(duration, "medium", "high")>>
     ELSE IF d = Y THEN <<ScenarioTask(duration, "medium", "low")>>
     ELSE <<>>]

\* The tasks prop, empty so far, becomes a scenario's tasks, in day view.
LoadScenario(scenarioTasks) ==
  /\ pc = "idle"
  /\ TotalTasks(tasks, 1) = 0
  /\ tasks' = scenarioTasks
  /\ viewMode' = "day"
  /\ StartComposition(tasks', viewMode')

LoadScenarioC(duration) == LoadScenario(ScenarioC(duration))

LoadScenarioA(X, Y, duration) ==
  /\ X # Y
  /\ LoadScenario(ScenarioA(X, Y, duration))

\* The tasks prop becomes empty again.
ClearTasks ==
  /\ pc = "idle"
  /\ TotalTasks(tasks, 1) > 0
  /\ tasks' = [d \in LifeDomains |-> <<>>]
  /\ StartComposition(tasks', viewMode)
  /\ UNCHANGED viewMode

ScenarioNext ==
  \/ \E duration \in ScenarioDurations :
       LoadScenarioC(duration) /\ UNCHANGED <<memo, sizing, navigation>>
  \/ \E X, Y \in LifeDomains \ {"red"}, duration \in ScenarioDurations :
       LoadScenarioA(X, Y, duration) /\ UNCHANGED <<memo, sizing, navigation>>
  \/ ClearTasks /\ UNCHANGED <<memo, sizing, navigation>>
  \/ PlaceNext /\ UNCHANGED <<memo, sizing, navigation>>
  \/ Return /\ UNCHANGED <<memo, sizing, navigation>>

ScenarioSpec == Init /\ [][ScenarioNext]_vars

\* ------------------------------------------------- hasEnoughSpacing by itself
\* SpacingSpec calls hasEnoughSpacing as findNextPosition does, after
\* canPlaceBlock, on grids that hold one block of a conflict-group domain.
\* sizing holds the call and its result.
ProbeOf(domain, row, col, width, height) ==
  [domain |-> domain, row |-> row, col |-> col, width |-> width, height |-> height,
   accepted |-> hasEnoughSpacing(grid, row, col, width, height, domain)]

\* placeBlock marks a 2 x 2 block of the owner on the empty grid.
PlaceOwner(owner, row, col) ==
  /\ pc = "idle"
  /\ Len(placedBlocks) = 0
  /\ TotalTasks(tasks, 1) = 0
  /\ canPlaceBlock(grid, row, col, 2, 2)
  /\ grid' = placeBlock(grid, owner, row, col, 2, 2)
  /\ placedBlocks' = <<[domain     |-> owner,
                        dimensions |-> [width |-> 2, height |-> 2],
                        position   |-> [row |-> row + 1, column |-> col + 1,
                                        span |-> 2]]>>
  /\ UNCHANGED <<tasks, viewMode, pc, domainMetrics, idx, currentRow, memo, sizing,
               navigation>>

\* canPlaceBlock(...) && hasEnoughSpacing(...) for one candidate.
Probe(domain, row, col, width, height) ==
  /\ Len(placedBlocks) = 1
  /\ sizing = NoSizing
  /\ canPlaceBlock(grid, row, col, width, height)
  /\ sizing' = ProbeOf(domain, row, col, width, height)
  /\ UNCHANGED <<layoutVars, memo, navigation>>

SpacingNext ==
  \/ \E owner \in {"purple", "yellow"}, row, col \in 0..MaxOwnerOrigin :
       PlaceOwner(owner, row, col)
  \/ \E domain \in {"purple", "yellow"}, row, col \in 0..MaxProbeOrigin,
        width, height \in 2..MaxProbeSide :
       Probe(domain, row, col, width, height)

SpacingSpec == Init /\ [][SpacingNext]_vars

\* ------------------------------------------------------ NavigationProvider
\* The updaters handed to setState, as functions of the previous state.
ZoomLevels == {"overview", "domain", "task"}

ViewTypes == {"dashboard", "tasks"}

\* The tasks a click or a selectTask call can name.
NavTasks ==
  {[_id |-> "task1", title |-> "Call the bank"],
   [_id |-> "task2", title |-> "Book a flight"],
   [_id |-> "task3", title |-> "Water the plants"]}

setZoomLevel(prev, level) == [prev EXCEPT !.zoomLevel = level]

setViewMode(prev, mode) == [prev EXCEPT !.viewMode = mode]

setViewType(prev, type) == [prev EXCEPT !.viewType = type]

selectDomain(prev, domainId, label) ==
  [prev EXCEPT !.zoomLevel = "domain",
               !.breadcrumbs = <<OverviewCrumb,
                                 [level |-> "domain", label |-> label, id |-> domainId]>>]

selectTask(prev, taskId, label) ==
  [prev EXCEPT !.zoomLevel = "task",
               !.breadcrumbs = Append(prev.breadcrumbs,
                                      [level |-> "task", label |-> label, id |-> taskId])]

\* slice(0, -1), then lastCrumb.level: with no crumb left lastCrumb is
\* undefined and the property access throws a TypeError; the updater returns
\* no state.
goBack(prev) ==
  LET newBreadcrumbs == SubSeq(prev.breadcrumbs, 1, Len(prev.breadcrumbs) - 1)
  IN  IF Len(newBreadcrumbs) = 0
      THEN [prev EXCEPT !.error = "TypeError"]
      ELSE [prev EXCEPT !.zoomLevel = newBreadcrumbs[Len(newBreadcrumbs)].level,
                        !.breadcrumbs = newBreadcrumbs]

resetNavigation(prev) ==
  [zoomLevel   |-> "overview",
   viewMode    |-> "day",
   viewType    |-> "dashboard",
   breadcrumbs |-> <<OverviewCrumb>>,
   error       |-> prev.error]

\* One call of an operation of the context: navigation becomes what the
\* updater returns.  After a throw the provider renders no more.
Call(next) ==
  /\ navigation.error = "none"
  /\ navigation' = next
  /\ UNCHANGED <<layoutVars, memo, sizing>>

CallSetZoomLevel(level) == Call(setZoomLevel(navigation, level))

CallSetViewMode(mode) == Call(setViewMode(navigation, mode))

CallSetViewType(type) == Call(setViewType(navigation, type))

CallSelectDomain(domain) == Call(selectDomain(navigation, domain, domain))

CallSelectTask(task) ==
  /\ Len(navigation.breadcrumbs) < MaxCrumbs
  /\ Call(selectTask(navigation, task._id, task.title))

CallGoBack == Call(goBack(navigation))

CallResetNavigation == Call(resetNavigation(navigation))

NavNext ==
  \/ \E level \in ZoomLevels : CallSetZoomLevel(level)
  \/ \E mode \in ViewModes : CallSetViewMode(mode)
  \/ \E type \in ViewTypes : CallSetViewType(type)
  \/ \E domain \in LifeDomains : CallSelectDomain(domain)
  \/ \E task \in NavTasks : CallSelectTask(task)
  \/ CallGoBack
  \/ CallResetNavigation

NavSpec == Init /\ [][NavNext]_vars

\* ------------------------------------------------------- clicks on the page
\* ClickSpec is the page: the view toggle of BreadcrumbNav and the clicks on
\* LifeComposition, which the page renders in the dashboard view only.
\* LifeComposition.handleDomainClick: selectDomain, then the page's
\* onDomainClick, which calls selectDomain again.
handleDomainClick(prev, domain) ==
  selectDomain(selectDomain(prev, domain, domain), domain, domain)

\* LifeComposition.handleTaskClick: selectTask, then the page's onTaskClick,
\* which calls selectTask again.
handleTaskClick(prev, task) ==
  selectTask(selectTask(prev, task._id, task.title), task._id, task.title)

\* breadcrumbs.find(crumb => crumb.level === level)?.id
FirstCrumbId(nav, level) ==
  IF \E i \in 1..Len(nav.breadcrumbs) : nav.breadcrumbs[i].level = level
  THEN nav.breadcrumbs[CHOOSE i \in 1..Len(nav.breadcrumbs) :
                         /\ nav.breadcrumbs[i].level = level
                         /\ \A j \in 1..(i - 1) : nav.breadcrumbs[j].level # level].id
  ELSE NoId

currentDomain(nav) == FirstCrumbId(nav, "domain")

currentTask(nav) == FirstCrumbId(nav, "task")

ViewToggle(type) == Call(setViewType(navigation, type))

DomainClick(domain) ==
  /\ navigation.viewType = "dashboard"
  /\ Call(handleDomainClick(navigation, domain))

TaskClick(task) ==
  /\ navigation.viewType = "dashboard"
  /\ Len(navigation.breadcrumbs) + 2 <= MaxClickCrumbs
  /\ Call(handleTaskClick(navigation, task))

ClickNext ==
  \/ \E type \in ViewTypes : ViewToggle(type)
  \/ \E domain \in LifeDomains : DomainClick(domain)
  \/ \E task \in NavTasks : TaskClick(task)

ClickSpec == Init /\ [][ClickNext]_vars

\* ------------------------------------------------------------------ claims
\* The footprint of an output entry, 0-indexed: rows r1..r2, columns c1..c2.
Footprint(b) ==
  [r1 |-> b.position.row - 1, r2 |-> b.position.row - 1 + b.dimensions.height - 1,
   c1 |-> b.position.column - 1, c2 |-> b.position.column - 1 + b.dimensions.width - 1]

RectsDisjoint(a, b) == a.r2 < b.r1 \/ b.r2 < a.r1 \/ a.c2 < b.c1 \/ b.c2 < a.c1

Widened(a, gap) ==
  [r1 |-> a.r1 - gap, r2 |-> a.r2 + gap, c1 |-> a.c1 - gap, c2 |-> a.c2 + gap]

\* A rectangle of cells lies inside the grid (an empty one always does).
InGrid(g, a) ==
  \/ a.r1 > a.r2
  \/ a.c1 > a.c2
  \/ /\ 0 <= a.r1 /\ a.r2 <= g.height - 1
     /\ 0 <= a.c1 /\ a.c2 <= g.width - 1

Area(d) == d.width * d.height

PlacedDomains == {placedBlocks[i].domain : i \in 1..Len(placedBlocks)}

Finished == pc = "idle"

\* C1 (no overlap): once the placement loop has finished, no two entries of
\* the returned list cover a common grid cell.
C1_NoOverlap ==
  Finished =>
    \A i, j \in 1..Len(placedBlocks) :
      i < j => RectsDisjoint(Footprint(placedBlocks[i]), Footprint(placedBlocks[j]))

\* C1 witness: a finished composition of three blocks, one of them placed by
\* the full-grid phase next to the others.
C1_Witness ==
  /\ Finished
  /\ Len(placedBlocks) = 3
  /\ \E i \in 1..3 : Area(placedBlocks[i].dimensions) >= 100

\* C2 (bounds, as claimed): every entry of the output fits the canvas of the
\* current view mode: row + height <= rows + 1 and column + width <= columns + 1.
C2_WithinCanvas ==
  Finished =>
    \A i \in 1..Len(placedBlocks) :
      LET b  == placedBlocks[i]
          gd == gridDimensions(viewMode)
      IN  /\ b.position.row + b.dimensions.height <= gd.rows + 1
          /\ b.position.column + b.dimensions.width <= gd.columns + 1

\* C3 (spacing, as claimed): placed domains of different conflict groups are
\* at least the configured gap apart: the footprint of one widened by the gap
\* in all four directions holds no cell of the other.
C3_ConflictGap ==
  Finished =>
    \A i, j \in 1..Len(placedBlocks) :
      LET a == placedBlocks[i]
          b == placedBlocks[j]
      IN  (/\ GroupOf(a.domain) # NoDomain
           /\ GroupOf(b.domain) # NoDomain
           /\ GroupOf(a.domain) # GroupOf(b.domain))
          => RectsDisjoint(Widened(Footprint(a), SpacingOf(a.domain).minRowGap),
                           Footprint(b))

C5_AreaMonotonic ==
  (sizing # NoSizing /\ sizing.before # NoSizing)
    => Area(sizing.dimensions) >= Area(sizing.before.dimensions)

\* C6 (size mapper bounds): for every preset and score the dimensions satisfy
\* 2 <= width <= columns - 2, 2 <= height <= rows - 2 and width * height >= 4,
\* and a request wider than columns - 2 yields exactly columns - 2.
C6_SizeBounds ==
  sizing # NoSizing =>
    LET gd == gridDimensions(sizing.mode)
        d  == sizing.dimensions
    IN  /\ 2 <= d.width /\ d.width <= gd.columns - 2
        /\ 2 <= d.height /\ d.height <= gd.rows - 2
        /\ d.width * d.height >= 4
        /\ FloorSqrt(12 * sizing.cells, 10) > gd.columns - 2
             => d.width = gd.columns - 2

\* C6 witness: a score whose target cell count exceeds the canvas and whose
\* requested width exceeds columns - 2.
C6_Witness ==
  /\ sizing # NoSizing
  /\ sizing.cells > gridDimensions(sizing.mode).columns * gridDimensions(sizing.mode).rows
  /\ FloorSqrt(12 * sizing.cells, 10) > gridDimensions(sizing.mode).columns - 2
  /\ sizing.dimensions.width = gridDimensions(sizing.mode).columns - 2

\* The search for the domain the loop has come to finds no position.
SearchFails ==
  /\ pc = "placing"
  /\ idx <= Len(domainMetrics)
  /\ findNextPosition(grid, domainMetrics[idx].dimensions.width,
                      domainMetrics[idx].dimensions.height,
                      domainMetrics[idx].domain, currentRow) = NoPosition

\* C7 (drop semantics): when findNextPosition returns null for a domain, the
\* step leaves the output list and every grid cell as they are and moves on
\* to the next domain of the sorted order; and a finished composition has
\* attempted every domain.
C7_DropSemantics ==
  /\ [][SearchFails =>
          /\ domainMetrics[idx].domain \notin PlacedDomains'
          /\ placedBlocks' = placedBlocks
          /\ grid' = grid
          /\ domainMetrics' = domainMetrics
          /\ idx' = idx + 1
          /\ pc' = "placing"]_vars
  /\ [](Finished => idx = Len(domainMetrics) + 1)

\* C7 witness: a domain was dropped and a later domain of the sorted order
\* was placed after it.
C7_Witness ==
  /\ Finished
  /\ \E i, j \in 1..Len(domainMetrics) :
       /\ i < j
       /\ domainMetrics[i].domain \notin PlacedDomains
       /\ domainMetrics[j].domain \in PlacedDomains

\* The origins of all three phases for the domain the loop has come to.
ProbeRanges(g, width, height, domain) ==
  {PreferredRange(g, width, height, domain), AreaRange(g, width, height),
   GridRange(g, width, height)}

\* C8 (no access outside the grid): in a placement pass, at every origin a
\* phase of the search can probe, canPlaceBlock and hasEnoughSpacing index
\* only cells of the grid, and placeBlock has written only cells of the grid.
C8_AccessInGrid ==
  /\ (pc = "placing" /\ idx <= Len(domainMetrics)) =>
       LET m == domainMetrics[idx]
           w == m.dimensions.width
           h == m.dimensions.height
       IN  \A range \in ProbeRanges(grid, w, h, m.domain) :
             \A row \in range.r1..range.r2 :
               \A col \in range.c1..range.c2 :
                 /\ InGrid(grid, CanPlaceReads(grid, row, col, w, h))
                 /\ InGrid(grid, SpacingReads(grid, row, col, w, h, m.domain))
  /\ \A i \in 1..Len(placedBlocks) :
       LET b == placedBlocks[i]
       IN  InGrid(grid, PlaceWrites(b.position.row - 1, b.position.column - 1,
                                    b.dimensions.width, b.dimensions.height))

\* C8 witness: the grid holds two blocks and the search for a third domain is
\* about to fail after probing every origin of every phase.
C8_Witness ==
  /\ SearchFails
  /\ Len(placedBlocks) = 2

\* C9 (placement order): the domains are processed, and the output is
\* ordered, by the priority table, whatever the scores.
C9_PriorityOrder ==
  /\ \A i, j \in 1..Len(domainMetrics) :
       i < j => PriorityOf(domainMetrics[i].domain) < PriorityOf(domainMetrics[j].domain)
  /\ \A i, j \in 1..Len(placedBlocks) :
       i < j => PriorityOf(placedBlocks[i].domain) < PriorityOf(placedBlocks[j].domain)

\* C9 witness: a finished output of three domains in which a later entry has
\* a higher score than an earlier one.
C9_Witness ==
  /\ Finished
  /\ Len(placedBlocks) = 3
  /\ \E i, j \in 1..3 :
       /\ i < j
       /\ Compare(placedBlocks[i], placedBlocks[j]) < 0
       /\ CompareScoreFirst(placedBlocks[i], placedBlocks[j]) > 0

\* max(row + height + 1) over the entries placed before entry i (0-indexed rows).
RECURSIVE RowBoundBefore(_)
RowBoundBefore(i) ==
  IF i <= 1 THEN 0
  ELSE Max(RowBoundBefore(i - 1),
           Footprint(placedBlocks[i - 1]).r1 + placedBlocks[i - 1].dimensions.height + 1)

\* C10 (row lower bound, as claimed): every placed rectangle's 0-indexed
\* origin row is at least the maximum of row + height + 1 over the domains
\* placed before it.
C10_RowLowerBound ==
  \A i \in 1..Len(placedBlocks) :
    Footprint(placedBlocks[i]).r1 >= RowBoundBefore(i)

\* The grid cells marked occupied.
OccupiedCells(g) ==
  {rc \in (0..(g.height - 1)) \X (0..(g.width - 1)) : g.cells[rc[1]][rc[2]].occupied}

NonEmptyDomains == {d \in LifeDomains : Len(tasks[d]) > 0}

\* C11 (empty input and empty categories): a domain without tasks is filtered
\* out before scoring, so every scored domain has a positive task count (the
\* divisor of the mean intensity) and no output entry belongs to a domain
\* without tasks; when no domain has a task the output is the empty list and
\* no grid cell is marked.
C11_EmptyCategories ==
  /\ \A i \in 1..Len(domainMetrics) :
       /\ domainMetrics[i].domain \in NonEmptyDomains
       /\ domainMetrics[i].factors.taskCount > 0
       /\ ScoreDen(domainMetrics[i].factors) > 0
  /\ PlacedDomains \subseteq NonEmptyDomains
  /\ NonEmptyDomains = {} =>
       /\ domainMetrics = <<>>
       /\ placedBlocks = <<>>
       /\ OccupiedCells(grid) = {}

\* C11 witness: a finished composition of two domains with tasks while the
\* other four have none.
C11_Witness ==
  /\ Finished
  /\ Cardinality(NonEmptyDomains) = 2
  /\ Len(placedBlocks) = 2

PhaseOfNext ==
  findNextPosition(grid, domainMetrics[idx].dimensions.width,
                   domainMetrics[idx].dimensions.height,
                   domainMetrics[idx].domain, currentRow).phase

Searching == pc = "placing" /\ idx <= Len(domainMetrics)

\* Day view, one low-stress task of no high priority in each of the six
\* domains, all of the same duration.
IsScenarioC ==
  /\ viewMode = "day"
  /\ \A d \in LifeDomains : Len(tasks[d]) = 1
  /\ \A d \in LifeDomains :
       /\ tasks[d][1].stressLevel = "low"
       /\ tasks[d][1].priority # "high"
       /\ tasks[d][1].estimatedTime = tasks["red"][1].estimatedTime

\* All six domains are placed without overlap and none by the full-grid phase.
SixPlacedWithoutFallback ==
  /\ Searching => PhaseOfNext \in {"preferred", "zone"}
  /\ Finished =>
       /\ PlacedDomains = LifeDomains
       /\ \A i, j \in 1..Len(placedBlocks) :
            i < j => RectsDisjoint(Footprint(placedBlocks[i]),
                                   Footprint(placedBlocks[j]))

\* C13 (Scenario C, as claimed): for every common duration all six domains
\* are placed, pairwise disjoint, and no position comes from the full-grid
\* phase.
C13_ScenarioC_AnyDuration == IsScenarioC => SixPlacedWithoutFallback

\* C13 (Scenario C, amended): the same for every common duration of at most
\* 240 minutes.
C13_ScenarioC ==
  (IsScenarioC /\ \A d \in LifeDomains : tasks[d][1].estimatedTime <= 240)
    => SixPlacedWithoutFallback

\* C13 witness: a finished Scenario C of four-hour tasks with six blocks.
C13_Witness ==
  /\ IsScenarioC
  /\ tasks["red"][1].estimatedTime = 240
  /\ Finished
  /\ Len(placedBlocks) = 6

\* Day view, five tasks of stress 'high' in X, three of them of high priority,
\* one low-stress task of no high priority in Y, all of one duration.
IsScenarioA(X, Y) ==
  /\ viewMode = "day"
  /\ X # Y /\ X # "red" /\ Y # "red"
  /\ \A d \in LifeDomains \ {X, Y} : tasks[d] = <<>>
  /\ Len(tasks[X]) = 5
  /\ Len(tasks[Y]) = 1
  /\ \A i \in 1..5 : /\ tasks[X][i].stressLevel = "high"
                     /\ tasks[X][i].estimatedTime = tasks[Y][1].estimatedTime
  /\ Cardinality({i \in 1..5 : tasks[X][i].priority = "high"}) = 3
  /\ tasks[Y][1].stressLevel = "low"
  /\ tasks[Y][1].priority # "high"

\* The entry of domainMetrics for a domain.
MetricsOf(d) ==
  domainMetrics[CHOOSE i \in 1..Len(domainMetrics) : domainMetrics[i].domain = d]

\* C14 (Scenario A): X's score is greater than Y's, X's cell area is at least
\* Y's, and the two footprints do not overlap, for every X and Y.
C14_ScenarioA ==
  \A X, Y \in LifeDomains :
    IsScenarioA(X, Y) =>
      LET mx == MetricsOf(X)
          my == MetricsOf(Y)
      IN  /\ ScoreNum(mx.factors) * ScoreDen(my.factors)
               > ScoreNum(my.factors) * ScoreDen(mx.factors)
          /\ Area(mx.dimensions) >= Area(my.dimensions)
          /\ Finished =>
               \A i, j \in 1..Len(placedBlocks) :
                 i < j => RectsDisjoint(Footprint(placedBlocks[i]),
                                        Footprint(placedBlocks[j]))

\* C14 witness: a finished Scenario A with both domains placed, Y next to X
\* in the same rows.
C14_Witness ==
  /\ Finished
  /\ \E X, Y \in LifeDomains : IsScenarioA(X, Y)
  /\ Len(placedBlocks) = 2
  /\ placedBlocks[1].position.row = placedBlocks[2].position.row

\* The cells of the grid that carry a domain.
CellsOf(g, domain) ==
  {rc \in OccupiedCells(g) : g.cells[rc[1]][rc[2]].domain = domain}

\* C15 (one-indexed output): every output entry's position is (row + 1,
\* col + 1) of the 0-indexed origin of the cells marked for its domain, so
\* row >= 1 and column >= 1, span equals width, and the emitted width and
\* height are those of the marked rectangle.
C15_OneIndexed ==
  \A i \in 1..Len(placedBlocks) :
    LET b == placedBlocks[i]
    IN  /\ b.position.row >= 1
        /\ b.position.column >= 1
        /\ b.position.span = b.dimensions.width
        /\ CellsOf(grid, b.domain) =
             ((b.position.row - 1)..(b.position.row + b.dimensions.height - 2))
             \X ((b.position.column - 1)..(b.position.column + b.dimensions.width - 2))

\* C15 witness: a finished output with an entry whose origin is neither in
\* the first row nor in the first column.
C15_Witness ==
  /\ Finished
  /\ \E i \in 1..Len(placedBlocks) :
       /\ placedBlocks[i].position.row > 1
       /\ placedBlocks[i].position.column > 1

\* C16 (grid sizing, as claimed): the occupancy grid of a placement pass has
\* the columns and rows of the canvas of the current view mode.
C16_GridIsCanvas ==
  pc = "placing" =>
    /\ grid.width = gridDimensions(viewMode).columns
    /\ grid.height = gridDimensions(viewMode).rows

\* The step appends an entry to the output list.
Places == Len(placedBlocks') = Len(placedBlocks) + 1

\* C17 (acceptance condition): whenever a position returned by
\* findNextPosition is placed, the whole footprint lies inside the grid,
\* every cell of it was unoccupied at that moment, and hasEnoughSpacing is
\* true for it on the grid of that moment.
C17_AcceptanceCondition ==
  [][Places =>
       LET b   == placedBlocks'[Len(placedBlocks')]
           row == b.position.row - 1
           col == b.position.column - 1
       IN  /\ row >= 0 /\ row + b.dimensions.height <= grid.height
           /\ col >= 0 /\ col + b.dimensions.width <= grid.width
           /\ \A r \in row..(row + b.dimensions.height - 1) :
                \A c \in col..(col + b.dimensions.width - 1) :
                  ~grid.cells[r][c].occupied
           /\ hasEnoughSpacing(grid, row, col, b.dimensions.width,
                               b.dimensions.height, b.domain)]_vars

\* C17 witness: a finished output of three blocks with both conflict-group
\* domains among them.
C17_Witness ==
  /\ Finished
  /\ Len(placedBlocks) = 3
  /\ {"purple", "yellow"} \subseteq PlacedDomains

\* An origin passes both tests on grid g.
ValidAt(g, row, col, width, height, domain) ==
  /\ canPlaceBlock(g, row, col, width, height)
  /\ hasEnoughSpacing(g, row, col, width, height, domain)

\* No origin of the range is valid.
NoneValidIn(g, range, width, height, domain) ==
  \A row \in range.r1..range.r2 :
    \A col \in range.c1..range.c2 :
      ~ValidAt(g, row, col, width, height, domain)

\* p is the first valid origin of the range in row-major order (rows outer).
FirstRowMajor(g, range, p, width, height, domain) ==
  /\ p.row \in range.r1..range.r2
  /\ p.col \in range.c1..range.c2
  /\ ValidAt(g, p.row, p.col, width, height, domain)
  /\ \A row \in range.r1..p.row :
       \A col \in range.c1..range.c2 :
         (row < p.row \/ col < p.col) => ~ValidAt(g, row, col, width, height, domain)

\* p is the first valid origin of the range in column-major order.
FirstColMajor(g, range, p, width, height, domain) ==
  /\ p.row \in range.r1..range.r2
  /\ p.col \in range.c1..range.c2
  /\ ValidAt(g, p.row, p.col, width, height, domain)
  /\ \A col \in range.c1..p.col :
       \A row \in range.r1..range.r2 :
         (col < p.col \/ row < p.row) => ~ValidAt(g, row, col, width, height, domain)

\* p is what the phase order prescribes for a domain of the given dimensions.
FollowsPhaseOrder(g, p, width, height, domain) ==
  LET preferred == PreferredRange(g, width, height, domain)
      zone      == AreaRange(g, width, height)
      all       == GridRange(g, width, height)
  IN  \/ /\ p.phase = "preferred"
         /\ IF searchPatterns(g)[domain].direction = "row"
            THEN FirstRowMajor(g, preferred, p, width, height, domain)
            ELSE FirstColMajor(g, preferred, p, width, height, domain)
      \/ /\ p.phase = "zone"
         /\ NoneValidIn(g, preferred, width, height, domain)
         /\ FirstRowMajor(g, zone, p, width, height, domain)
      \/ /\ p.phase = "full"
         /\ NoneValidIn(g, preferred, width, height, domain)
         /\ NoneValidIn(g, zone, width, height, domain)
         /\ FirstRowMajor(g, all, p, width, height, domain)
      \/ /\ p = NoPosition
         /\ NoneValidIn(g, preferred, width, height, domain)
         /\ NoneValidIn(g, zone, width, height, domain)
         /\ NoneValidIn(g, all, width, height, domain)

\* C18 (phase order): findNextPosition returns the first valid origin of the
\* preferred pattern in its scan order; if there is none, the first valid
\* origin of the priority zone in row-major order; if there is none, the first
\* valid origin of the whole grid in row-major order; and null only when all
\* three have none.
C18_PhaseOrder ==
  Searching =>
    LET m == domainMetrics[idx]
    IN  \A p \in {findNextPosition(grid, m.dimensions.width, m.dimensions.height,
                                   m.domain, currentRow)} :
          FollowsPhaseOrder(grid, p, m.dimensions.width, m.dimensions.height,
                            m.domain)

\* C18 witness: the preferred pattern and the priority zone of the domain the
\* loop has come to hold no valid origin, and the full grid does.
C18_Witness ==
  /\ Searching
  /\ Len(placedBlocks) >= 2
  /\ PhaseOfNext = "full"

\* C19 (exhaustiveness): a domain is dropped exactly when, at the moment it is
\* processed, no origin of the grid passes both canPlaceBlock and
\* hasEnoughSpacing for its dimensions; whenever one does, the domain is placed.
C19_Exhaustive ==
  [][Searching =>
       LET m == domainMetrics[idx]
           w == m.dimensions.width
           h == m.dimensions.height
       IN  (m.domain \notin PlacedDomains')
           <=> ~(\E row \in 0..(grid.height - 1), col \in 0..(grid.width - 1) :
                   ValidAt(grid, row, col, w, h, m.domain))]_vars

\* C19 witness: the grid has free cells, more than the domain's footprint
\* needs, and yet no origin is valid for it.
C19_Witness ==
  /\ SearchFails
  /\ Cardinality(OccupiedCells(grid)) + Area(domainMetrics[idx].dimensions)
       < grid.width * grid.height

\* The number of attempts of a domain's preferred pattern: 40% of the grid
\* width, 30% for red, 40% of the grid height for orange.
AttemptsOf(g, domain) ==
  IF domain = "red" THEN (3 * g.width) \div 10
  ELSE IF domain = "orange" THEN (4 * g.height) \div 10
  ELSE (4 * g.width) \div 10

\* The window in which only the scanned axis is bounded by the attempts:
\* columns for a row-scanning domain, rows for orange.
WindowScannedAxisOnly(g, width, height, domain) ==
  LET pattern == searchPatterns(g)[domain]
  IN  IF domain # "orange"
      THEN [r1 |-> pattern.startRow, r2 |-> g.height - height,
            c1 |-> pattern.startCol,
            c2 |-> Min(g.width - width, pattern.startCol + AttemptsOf(g, domain))]
      ELSE [r1 |-> pattern.startRow,
            r2 |-> Min(g.height - height, pattern.startRow + AttemptsOf(g, domain)),
            c1 |-> pattern.startCol, c2 |-> g.width - width]

\* The window in which both axes are bounded by the attempts.
WindowBothAxes(g, width, height, domain) ==
  LET pattern == searchPatterns(g)[domain]
  IN  [r1 |-> pattern.startRow,
       r2 |-> Min(g.height - height, pattern.startRow + AttemptsOf(g, domain)),
       c1 |-> pattern.startCol,
       c2 |-> Min(g.width - width, pattern.startCol + AttemptsOf(g, domain))]

\* The preferred phase answers exactly when the window holds a valid origin,
\* and then from inside the window.
PreferredProbes(window) ==
  \A p \in {findNextPosition(grid, domainMetrics[idx].dimensions.width,
                             domainMetrics[idx].dimensions.height,
                             domainMetrics[idx].domain, currentRow)} :
    LET m == domainMetrics[idx]
    IN  /\ p.phase = "preferred" =>
             /\ p.row \in window.r1..window.r2
             /\ p.col \in window.c1..window.c2
        /\ p.phase # "preferred" =>
             NoneValidIn(grid, window, m.dimensions.width, m.dimensions.height,
                         m.domain)

\* C20 (preferred-pattern window, as claimed): the preferred phase probes the
\* origins from the pattern's start whose offset on the scanned axis is at
\* most the attempts (40% of that axis, 30% of the width for red), the other
\* axis being limited only by the grid edge.
C20_WindowScannedAxisOnly ==
  Searching =>
    PreferredProbes(WindowScannedAxisOnly(grid, domainMetrics[idx].dimensions.width,
                                          domainMetrics[idx].dimensions.height,
                                          domainMetrics[idx].domain))

\* C20 (preferred-pattern window, amended): the preferred phase probes the
\* origins from the pattern's start whose row offset and column offset are
\* both at most the attempts, cut at the grid edge.
C20_WindowBothAxes ==
  Searching =>
    PreferredProbes(WindowBothAxes(grid, domainMetrics[idx].dimensions.width,
                                   domainMetrics[idx].dimensions.height,
                                   domainMetrics[idx].domain))

\* C20 witness: the window bounded on both axes holds no valid origin for the
\* domain the loop has come to, the rows below it do, and the preferred
\* phase does not answer.
C20_Witness ==
  /\ Searching
  /\ PhaseOfNext \in {"zone", "full"}
  /\ LET m == domainMetrics[idx]
     IN  ~NoneValidIn(grid,
                      WindowScannedAxisOnly(grid, m.dimensions.width,
                                            m.dimensions.height, m.domain),
                      m.dimensions.width, m.dimensions.height, m.domain)

\* The origins whose footprint lies inside rows [0, floor(0.7 * height)) and
\* columns [0, floor(0.7 * width)).
ZoneWindow(g, width, height) ==
  [r1 |-> 0, r2 |-> (7 * g.height) \div 10 - height,
   c1 |-> 0, c2 |-> (7 * g.width) \div 10 - width]

MayReject(owner, domain) ==
  \/ owner = domain
  \/ owner \in {"purple", "yellow"} /\ domain \in {"purple", "yellow"}

\* Some occupied cell of the footprint widened by the gap (rows row - 2 ..
\* row + height + 2, columns col - 2 .. col + width + 2) has such an owner.
RejectingOwnerNear(g, row, col, width, height, domain) ==
  \E r \in Max(0, row - 2)..Min(g.height - 1, row + height + 2) :
    \E c \in Max(0, col - 2)..Min(g.width - 1, col + width + 2) :
      g.cells[r][c].occupied /\ MayReject(g.cells[r][c].domain, domain)

\* C22 (non-conflicting owners): on every grid of a placement pass and for
\* every origin of the domain being placed, hasEnoughSpacing rejects only when
\* the widened footprint holds a cell of the domain itself or, for purple and
\* yellow, of the other of the two; cells of other owners never reject.
C22_NonConflictingOwners ==
  Searching =>
    LET m == domainMetrics[idx]
        w == m.dimensions.width
        h == m.dimensions.height
    IN  \A row \in 0..(grid.height - h) :
          \A col \in 0..(grid.width - w) :
            ~hasEnoughSpacing(grid, row, col, w, h, m.domain)
              => RejectingOwnerNear(grid, row, col, w, h, m.domain)

\* C22 witness: yellow is being placed on a grid that holds a red block
\* (outside the groups) and the purple block (of the other group).
C22_Witness ==
  /\ Searching
  /\ domainMetrics[idx].domain = "yellow"
  /\ PlacedDomains = {"red", "purple"}

\* A cell of the footprint (row, col, width, height) and a cell of another
\* conflict group than the domain's share an edge.
SharesEdgeWithConflict(g, row, col, width, height, domain) ==
  \E r \in row..(row + height - 1), c \in col..(col + width - 1) :
    \E n \in {<<r - 1, c>>, <<r + 1, c>>, <<r, c - 1>>, <<r, c + 1>>} :
      /\ CellAt(g, n[1], n[2]).occupied
      /\ GroupOf(CellAt(g, n[1], n[2]).domain) # NoDomain
      /\ GroupOf(domain) # NoDomain
      /\ GroupOf(CellAt(g, n[1], n[2]).domain) # GroupOf(domain)

TotalGridCellsOf(mode) == gridDimensions(mode).columns * gridDimensions(mode).rows

\* floor(totalGridCells * (score / 100) * multiplier), one floor.
SingleFloorCells(sz) ==
  (TotalGridCellsOf(sz.mode) * ScoreNum(sz.factors) * domainImportance[sz.domain])
    \div (ScoreDen(sz.factors) * 10)

\* floor(floor(totalGridCells * (score / 100)) * multiplier), two floors.
TwoFloorCells(sz) ==
  (((TotalGridCellsOf(sz.mode) * ScoreNum(sz.factors)) \div ScoreDen(sz.factors))
     * domainImportance[sz.domain]) \div 10

\* C24 (target cells, as claimed): for every score, preset and category
\* multiplier the cell count from which width and height are derived equals
\* floor(totalGridCells * (score / 100) * multiplier), with a single floor.
C24_SingleFloor == sizing.cells = SingleFloorCells(sizing)

\* C24 (target cells, amended): the cell count from which width and height
\* are derived equals floor(floor(totalGridCells * (score / 100)) * multiplier):
\* the product with the score is floored before the multiplier is applied,
\* and the result is floored again.
C24_TwoFloors == sizing.cells = TwoFloorCells(sizing)

\* The two roundings differ: a multiplier other than 1.0 on a fractional
\* product.
C24_Witness ==
  /\ sizing.cells = TwoFloorCells(sizing)
  /\ SingleFloorCells(sizing) > TwoFloorCells(sizing)
  /\ domainImportance[sizing.domain] # 10

\* The cells an output entry covers.
FootprintCells(b) ==
  (Footprint(b).r1..Footprint(b).r2) \X (Footprint(b).c1..Footprint(b).c2)

\* width * height summed over the first n entries placed.
RECURSIVE SumAreas(_)
SumAreas(n) ==
  IF n = 0 THEN 0 ELSE Area(placedBlocks[n].dimensions) + SumAreas(n - 1)

\* C25 (occupancy invariant): at every point of a placement pass the cells
\* with occupied = true are exactly the union of the footprints of the
\* domains placed so far, each such cell carries the domain whose footprint
\* covers it, and their number is the sum of width * height over the placed
\* domains.
C25_Occupancy ==
  \A occ \in {OccupiedCells(grid)} :
    /\ occ = UNION {FootprintCells(placedBlocks[i]) : i \in 1..Len(placedBlocks)}
    /\ \A i \in 1..Len(placedBlocks) :
         \A rc \in FootprintCells(placedBlocks[i]) :
           CellAt(grid, rc[1], rc[2]).domain = placedBlocks[i].domain
    /\ Cardinality(occ) = SumAreas(Len(placedBlocks))

\* C25 witness: in the middle of a pass, two domains placed and a third
\* still to come.
C25_Witness ==
  /\ Searching
  /\ Len(placedBlocks) = 2
  /\ Cardinality(OccupiedCells(grid)) =
       Area(placedBlocks[1].dimensions) + Area(placedBlocks[2].dimensions)

\* C26 (one entry per domain): each domain appears at most once in the
\* output, every output domain has at least one task in the filtered task
\* set, and the output is never longer than the number of domains with tasks,
\* which is at most 6.
C26_OnePerDomain ==
  /\ \A i, j \in 1..Len(placedBlocks) :
       placedBlocks[i].domain = placedBlocks[j].domain => i = j
  /\ \A i \in 1..Len(placedBlocks) : Len(tasks[placedBlocks[i].domain]) >= 1
  /\ Len(placedBlocks) <= Cardinality(NonEmptyDomains)
  /\ Cardinality(NonEmptyDomains) <= 6

\* C26 witness: a finished output of two entries for three tasks, two of them
\* of one domain.
C26_Witness ==
  /\ Finished
  /\ Len(placedBlocks) = 2
  /\ Cardinality(NonEmptyDomains) = 2
  /\ \E d \in LifeDomains : Len(tasks[d]) = 2

\* C27 (the first domain is never dropped): in each view mode the first
\* domain of the sorted list, searched on the empty grid, receives a position,
\* through the priority zone or the full grid where its preferred window has
\* no valid origin; so the output is not empty when some domain has a task.
C27_FirstNeverDropped ==
  /\ (pc = "placing" /\ idx > 1) =>
       /\ Len(placedBlocks) >= 1
       /\ placedBlocks[1].domain = domainMetrics[1].domain
  /\ (Finished /\ NonEmptyDomains # {}) => Len(placedBlocks) >= 1

\* C27 witness: the first domain is about to be searched on the empty grid
\* and its preferred window holds no valid origin.
C27_Witness ==
  /\ Searching
  /\ idx = 1
  /\ PhaseOfNext \in {"zone", "full"}

\* The entries of purple and of yellow in the output so far, as pairs.
PurpleYellowPairs ==
  {ij \in (1..Len(placedBlocks)) \X (1..Len(placedBlocks)) :
     /\ placedBlocks[ij[1]].domain = "purple"
     /\ placedBlocks[ij[2]].domain = "yellow"}

\* C28 (purple and yellow never touch): in every output of the placement
\* loop, red and purple being placed before yellow, the footprints of purple
\* and yellow are neither edge-adjacent nor corner-adjacent: an empty row or
\* an empty column lies between them.
C28_NeverAdjacent ==
  \A ij \in PurpleYellowPairs :
    RectsDisjoint(Widened(Footprint(placedBlocks[ij[1]]), 1),
                  Footprint(placedBlocks[ij[2]]))

\* C28 witness: a finished output in which exactly one empty row or column
\* separates purple and yellow.
C28_Witness ==
  /\ Finished
  /\ \E ij \in PurpleYellowPairs :
       /\ RectsDisjoint(Widened(Footprint(placedBlocks[ij[1]]), 1),
                        Footprint(placedBlocks[ij[2]]))
       /\ ~RectsDisjoint(Widened(Footprint(placedBlocks[ij[1]]), 2),
                         Footprint(placedBlocks[ij[2]]))

\* C29 (breadcrumbs are never empty, as claimed): after any sequence of
\* operations of the context the breadcrumbs hold at least one entry, the
\* first entry has level 'overview', and goBack never fails.
C29_GoBackNeverFails ==
  /\ Len(navigation.breadcrumbs) >= 1
  /\ navigation.breadcrumbs[1].level = "overview"
  /\ navigation.error = "none"

\* The crumbs of one level.
CrumbsOf(nav, level) ==
  {i \in 1..Len(nav.breadcrumbs) : nav.breadcrumbs[i].level = level}

====
